---- MODULE Spec2Model ----
(***************************************************************************)
(* Model of geometry_api: the component registry (create_component,        *)
(* clear_components, get_sysmlv2_text, load_from_sysml), the document-tree *)
(* searches (find_partusage_by_definition, find_component_partusage) and   *)
(* the world-pose accumulator (components_from_part_world); and of the     *)
(* Onshape glue: insert_assembly_from_url, insert_assembly_from_mvid and   *)
(* _export_components with the remote service they drive.                  *)
(*                                                                         *)
(* Numbers: every float of the program is an integer here.  Angles given   *)
(* to the transform library are counted in quarter turns (pi/2 rad), so    *)
(* that sines and cosines are exact; translations are integers.            *)
(***************************************************************************)
EXTENDS Integers, Sequences, FiniteSets, TLC

VARIABLES
    doc,         \* the document tree (syside elements), nodes in document order
    call,        \* the operation being run / last run, with its arguments
    stack,       \* components_from_part_world: pending visit(el, parent_state) calls
    out,         \* components_from_part_world: the list `out`
    status,      \* "idle" | "running" | "returned" | "raised"
    ret,         \* what the last operation returned or raised
    components,  \* the module-level dict _components (insertion ordered)
    heap,        \* every Component object ever constructed, by identity
    export_components, \* _export_components: its argument `components`
    comp_index,  \* _export_components: position of the for loop, from 1
    placement,   \* _export_components: what the insert of the record returned
    inserted,    \* _export_components: the dict `inserted` (insertion ordered)
    pc,          \* Onshape glue: the statement the running operation is at
    remote       \* every call made to the remote service, with its outcome

exportVars == <<export_components, comp_index, placement, inserted, pc, remote>>
vars == <<doc, call, stack, out, status, ret, components, heap, exportVars>>

----------------------------------------------------------------------------
(* Bounds *)

\* number of nodes of a document tree handed to the accumulator
WorldNodes == 4

\* number of nodes of a document tree handed to the searches
FindNodes == 4

\* number of Component objects create_component may construct in a run
MaxCreated == 2

\* number of Component objects a run may construct in all
MaxHeap == 4

\* number of elements of a document traversed with a chosen unit of angle and
\* Euler convention (SpecAngles)
AngleNodes == 3

\* number of records handed to _export_components (SpecExport)
ExportRecords == 2

\* number of elements of a document handed to load_from_sysml (SpecLoad)
LoadNodes == 3

\* number of components create_component may construct before a text is
\* produced (SpecText)
TextCreated == 3

----------------------------------------------------------------------------
(* Python values that may be None or of several types are tagged. *)

None == [t |-> "None"]
Str(s) == [t |-> "str", v |-> s]
Num(n) == [t |-> "num", v |-> n]

\* The characters of every string the model uses (Python str indexing).
Chars(s) ==
    CASE s = ""   -> <<>>
      [] s = "r"  -> <<"r">>
      [] s = "nx" -> <<"n", "x">>
      [] s = "tc" -> <<"t", "c">>
      [] OTHER    -> <<s>>

\* bool(x) for None and str
Truthy(x) == x # None /\ (x.t = "str" => x.v # "")

Range(s) == {s[i] : i \in DOMAIN s}


----------------------------------------------------------------------------
(* Transform math: 4x4 homogeneous matrices with integer entries. *)

Identity4 == <<<<1, 0, 0, 0>>, <<0, 1, 0, 0>>, <<0, 0, 1, 0>>, <<0, 0, 0, 1>>>>

\* numpy's A @ B
MatMul(A, B) ==
    LET e(i, j) == A[i][1] * B[1][j] + A[i][2] * B[2][j] + A[i][3] * B[3][j] + A[i][4] * B[4][j]
        row(i) == <<e(i, 1), e(i, 2), e(i, 3), e(i, 4)>>
    IN  <<row(1), row(2), row(3), row(4)>>

\* cos and sin of a whole number of quarter turns
Cos(q) == <<1, 0, -1, 0>>[(q % 4) + 1]
Sin(q) == <<0, 1, 0, -1>>[(q % 4) + 1]

\* transformation_matrix(translation, angles): the rotation about the fixed
\* axes x, then y, then z ('sxyz'), R = Rz(rz) Ry(ry) Rx(rx), with the
\* translation in the last column.
transformation_matrix(translation, angles) ==
    LET cx == Cos(angles[1])
        sx == Sin(angles[1])
        cy == Cos(angles[2])
        sy == Sin(angles[2])
        cz == Cos(angles[3])
        sz == Sin(angles[3])
    IN  << <<cy * cz, sx * sy * cz - cx * sz, cx * sy * cz + sx * sz, translation[1]>>,
           <<cy * sz, sx * sy * sz + cx * cz, cx * sy * sz - sx * cz, translation[2]>>,
           <<-sy, sx * cy, cx * cy, translation[3]>>,
           <<0, 0, 0, 1>> >>

\* atan2 on the lattice, in quarter turns
Atan2(y, x) ==
    CASE y = 0 /\ x > 0 -> 0
      [] y > 0 /\ x = 0 -> 1
      [] y = 0 /\ x < 0 -> 2
      [] y < 0 /\ x = 0 -> -1
      [] OTHER          -> 0

\* _AXES2TUPLE entry of an axes key: <<firstaxis, parity, repetition, frame>>
AxesTuple(axes) ==
    CASE axes = "sxyz" -> <<0, 0, 0, 0>>
      [] axes = "szyx" -> <<2, 1, 0, 0>>
      [] axes = "rzyx" -> <<0, 0, 0, 1>>
      [] axes = "rxyz" -> <<2, 1, 0, 1>>

NextAxis(n) == <<1, 2, 0, 1>>[n + 1]

\* euler_from_matrix(M, axes) for the axis orders without repetition; when the
\* pivot is saturated (cy = 0) the third angle is fixed to zero.
euler_from_matrix(M, axes) ==
    LET ax4 == AxesTuple(axes)
        i == ax4[1] + 1
        j == NextAxis(ax4[1] + ax4[2]) + 1
        k == NextAxis(ax4[1] - ax4[2] + 1) + 1
        cy == IF M[i][i] # 0 \/ M[j][i] # 0 THEN 1 ELSE 0
        a == IF cy > 0
             THEN <<Atan2(M[k][j], M[k][k]), Atan2(-M[k][i], cy), Atan2(M[j][i], M[i][i])>>
             ELSE <<Atan2(-M[j][k], M[j][j]), Atan2(-M[k][i], cy), 0>>
        b == IF ax4[2] = 1 THEN <<-a[1], -a[2], -a[3]>> ELSE a
    IN  IF ax4[4] = 1 THEN <<b[3], b[2], b[1]>> ELSE b

----------------------------------------------------------------------------
(* The document tree.  doc[i] is the i-th element in document order:       *)
(*   parent : 0 for the root, otherwise the index of the owner             *)
(*   kind   : "PartUsage" or "Element" (anything try_cast(PartUsage)       *)
(*            rejects)                                                     *)
(*   name   : None or Str(_)                                               *)
(*   part_definitions : sequence of definition names                      *)
(*   definition : what the get_part_def probe of find_component_partusage  *)
(*            yields, None or Str(name)                                    *)
(*   attrs  : the owned AttributeUsage elements, each [name, expr], expr   *)
(*            the attribute's first owned element                          *)

LitRat(n) == [k |-> "LiteralRational", v |-> n]
LitInt(n) == [k |-> "LiteralInteger", v |-> n]
LitStr(s) == [k |-> "LiteralString", v |-> s]
Expr(n)   == [k |-> "Expression", ok |-> TRUE, v |-> n]
BadExpr   == [k |-> "Expression", ok |-> FALSE, v |-> 0]
Attr(n, e) == [name |-> n, expr |-> e]

\* owned_elements of doc[i] that are themselves nodes of the tree, in order
Children(d, i) == SelectSeq([j \in 1..Len(d) |-> j], LAMBDA j : d[j].parent = i)

RECURSIVE Depth(_, _)
Depth(d, i) == IF d[i].parent = 0 THEN 0 ELSE 1 + Depth(d, d[i].parent)

RECURSIVE ProperAncestors(_, _)
ProperAncestors(d, i) ==
    IF d[i].parent = 0 THEN {} ELSE {d[i].parent} \cup ProperAncestors(d, d[i].parent)

\* the nodes of the subtree of i, depth first, each node before its children,
\* children in their natural order
RECURSIVE PreOrder(_, _)
RECURSIVE PreOrderEach(_, _)
PreOrderEach(d, ch) ==
    IF ch = <<>> THEN <<>> ELSE PreOrder(d, Head(ch)) \o PreOrderEach(d, Tail(ch))
PreOrder(d, i) == <<i>> \o PreOrderEach(d, Children(d, i))

\* i and its owners up to the root, in a parent vector p
RECURSIVE OwnerChain(_, _)
OwnerChain(p, i) == IF i = 0 THEN {} ELSE {i} \cup OwnerChain(p, p[i])

\* the parent vectors of the trees with n nodes numbered in document order:
\* node i is owned by node i-1 or by one of the owners of node i-1
RECURSIVE ParentVectors(_)
ParentVectors(n) ==
    IF n = 1 THEN {<<0>>}
    ELSE UNION {{Append(p, a) : a \in OwnerChain(p, n - 1)} : p \in ParentVectors(n - 1)}

\* the trees over a parent vector whose nodes are drawn from a set of profiles
TreesOver(n, profiles) ==
    LET pv == ParentVectors(n)
    IN  {[i \in 1..n |-> [parent |-> p[i]] @@ f[i]] : p \in pv, f \in [1..n -> profiles]}


\* the Onshape glue is not running and has made no remote call
ExportIdle ==
    /\ export_components = <<>>
    /\ comp_index = 0
    /\ placement = None
    /\ inserted = <<>>
    /\ pc = "idle"
    /\ remote = <<>>
----------------------------------------------------------------------------
(* components_from_part_world(root, angles_in_degrees, euler_axes) *)

\* to_rad / to_deg: a * pi / 180 and a * 180 / pi, pi being two quarter turns
\* to_rad that converts what it has converted once more
to_rad_twice(angles_in_degrees, a) == IF angles_in_degrees THEN (a \div 90) \div 90 ELSE a
to_rad(angles_in_degrees, a) == IF angles_in_degrees THEN a \div 90 ELSE a
to_deg(a) == a * 90

\* collect_attr over the owned elements: the dict `vals`, or "raise" when the
\* evaluation of an expression fails.  A later attribute of the same name
\* overwrites an earlier one; an attribute without a recognised expression
\* leaves no entry.
Recognised(e) == e.k \in {"LiteralRational", "LiteralInteger", "LiteralString", "Expression"}
CollectRaises(attrs) == \E a \in Range(attrs) : a.expr.k = "Expression" /\ ~a.expr.ok
RECURSIVE CollectInto(_, _)
CollectInto(vals, attrs) ==
    IF attrs = <<>> THEN vals
    ELSE LET a == Head(attrs)
         IN  CollectInto(IF Recognised(a.expr) THEN (a.name :> a.expr.v) @@ vals ELSE vals,
                         Tail(attrs))
CollectVals(attrs) == CollectInto(<<>>, attrs)

\* vals.get(key, default)
Get(vals, key, default) == IF key \in DOMAIN vals THEN vals[key] ELSE default
\* vals.get(key) for a string valued metadata attribute
GetOpt(vals, key) == IF key \in DOMAIN vals THEN Str(vals[key]) ELSE None

\* part.name or ""
NameOrEmpty(name) == IF Truthy(name) THEN name.v ELSE ""

\* T_local of a PartUsage from its vals (lines 366-370)
LocalTransform(vals, angles_in_degrees) ==
    transformation_matrix(
        <<Get(vals, "tx", 0), Get(vals, "ty", 0), Get(vals, "tz", 0)>>,
        <<to_rad(angles_in_degrees, Get(vals, "rx", 0)),
          to_rad(angles_in_degrees, Get(vals, "ry", 0)),
          to_rad(angles_in_degrees, Get(vals, "rz", 0))>>)

\* T_abs = parent_state["T"] @ T_local
ComposeReversed(T_parent, T_local) == MatMul(T_local, T_parent)
Compose(T_parent, T_local) == MatMul(T_parent, T_local)

\* the state a visit starts from: parent_state, or the seed when it is None
StartState(parent_state) ==
    IF parent_state = None THEN [T |-> Identity4, comp_parent |-> None] ELSE parent_state

\* comp_parent[i] of the record: Python indexing of the stored value
IndexRaises(comp_parent, i) == Truthy(comp_parent) /\ Len(Chars(comp_parent.v)) < i + 1
IndexOrNone(comp_parent, i) ==
    IF Truthy(comp_parent) THEN Str(Chars(comp_parent.v)[i + 1]) ELSE None

\* whether visit(el, parent_state) raises at el itself
VisitRaises(node, ps) ==
    /\ node.kind = "PartUsage"
    /\ \/ CollectRaises(node.attrs)
       \/ IndexRaises(ps.comp_parent, 0)
       \/ IndexRaises(ps.comp_parent, 1)

\* float(x), or x itself when float raises: the model's numbers are floats
\* already, and no string of the model reads as a number
to_float(x) == x
normalize(rec) == [f \in DOMAIN rec |-> to_float(rec[f])]

\* rec of a PartUsage (lines 382-408), T_abs being its absolute transform
VisitRecord(node, ps, vals, T_abs, angles_in_degrees, euler_axes) ==
    LET e == euler_from_matrix(T_abs, euler_axes)
        ang(a) == IF angles_in_degrees THEN to_deg(a) ELSE a
    IN  normalize(
        [name |-> NameOrEmpty(node.name),
         tx |-> Get(vals, "tx", 0), ty |-> Get(vals, "ty", 0), tz |-> Get(vals, "tz", 0),
         rx |-> Get(vals, "rx", 0), ry |-> Get(vals, "ry", 0), rz |-> Get(vals, "rz", 0),
         abs_tx |-> T_abs[1][4], abs_ty |-> T_abs[2][4], abs_tz |-> T_abs[3][4],
         abs_rx |-> ang(e[1]), abs_ry |-> ang(e[2]), abs_rz |-> ang(e[3]),
         parent_name |-> IndexOrNone(ps.comp_parent, 0),
         parent_typeID |-> IndexOrNone(ps.comp_parent, 1),
         onshape_url |-> GetOpt(vals, "onshape_url")])

\* whether the visit of a node appends a record (`if part:` ... `if True:`)
Emits(node) == node.kind = "PartUsage"

\* next_state["comp_parent"] after the record rec was appended
NextCompParent(rec, vals) == Str(rec.name)

\* the calls children.for_each(lambda c: visit(c, next_state)) makes, in order
ChildCallsReversed(d, el, next_state) ==
    LET ch == Children(d, el)
    IN  [c \in 1..Len(ch) |-> [el |-> ch[Len(ch) + 1 - c], parent_state |-> next_state]]
ChildCalls(d, el, next_state) ==
    LET ch == Children(d, el)
    IN  [c \in 1..Len(ch) |-> [el |-> ch[c], parent_state |-> next_state]]

\* the call components_from_part_world(root, ...): visit(root, None) is pending
WorldCall(root, angles_in_degrees, euler_axes) ==
    [op |-> "components_from_part_world", root |-> root,
     angles_in_degrees |-> angles_in_degrees, euler_axes |-> euler_axes]

\* one call of visit: the head of the stack runs up to its recursion
Visit ==
    /\ status = "running"
    /\ stack # <<>>
    /\ LET frame == Head(stack)
           node == doc[frame.el]
           ps == StartState(frame.parent_state)
       IN  IF VisitRaises(node, ps)
           THEN /\ status' = "raised"
                /\ ret' = [raised |-> IF CollectRaises(node.attrs)
                                      THEN "ExpressionEvaluationError" ELSE "IndexError"]
                /\ stack' = <<>>
                /\ out' = <<>>
           ELSE IF node.kind = "PartUsage"
           THEN LET vals == CollectVals(node.attrs)
                    T_abs == Compose(ps.T, LocalTransform(vals, call.angles_in_degrees))
                    rec == VisitRecord(node, ps, vals, T_abs, call.angles_in_degrees,
                                       call.euler_axes)
                    emitted == Emits(node)
                    next_state == [T |-> T_abs,
                                   comp_parent |-> IF emitted THEN NextCompParent(rec, vals)
                                                   ELSE ps.comp_parent]
                IN  /\ out' = IF emitted THEN Append(out, rec) ELSE out
                    /\ stack' = ChildCalls(doc, frame.el, next_state) \o Tail(stack)
                    /\ UNCHANGED <<status, ret>>
           ELSE /\ stack' = ChildCalls(doc, frame.el, ps) \o Tail(stack)
                /\ UNCHANGED <<out, status, ret>>
    /\ UNCHANGED <<exportVars, doc, call, components, heap>>

\* visit(root, None) has returned: return out
WorldReturn ==
    /\ status = "running"
    /\ stack = <<>>
    /\ status' = "returned"
    /\ ret' = [returned |-> out]
    /\ UNCHANGED <<exportVars, doc, call, stack, out, components, heap>>

\* Node profiles of the documents handed to the accumulator.
PoseA == <<Attr("tx", LitRat(1)), Attr("rz", LitRat(1))>>
PoseB == <<Attr("ty", LitRat(2)), Attr("rx", LitRat(1))>>
WorldElement ==
    [kind |-> "Element", name |-> None, part_definitions |-> <<>>, definition |-> None,
     attrs |-> <<>>]
WorldPart(name, attrs) ==
    [kind |-> "PartUsage", name |-> name, part_definitions |-> <<>>, definition |-> None,
     attrs |-> attrs]
WorldProfiles ==
    { WorldElement,
      WorldPart(Str("r"), <<>>),
      WorldPart(Str("nx"), PoseA \o <<Attr("typeID", LitInt(0))>>),
      WorldPart(Str("tc"), PoseB \o <<Attr("typeID", LitInt(2)),
                                      Attr("onshape_url", LitStr("u"))>>) }

WorldDocs == TreesOver(WorldNodes, WorldProfiles)

InitWorld ==
    /\ ExportIdle
    /\ doc \in WorldDocs
    /\ call = WorldCall(1, FALSE, "sxyz")
    /\ stack = <<[el |-> 1, parent_state |-> None]>>
    /\ out = <<>>
    /\ status = "running"
    /\ ret = None
    /\ components = <<>>
    /\ heap = <<>>

NextWorld == Visit \/ WorldReturn

SpecWorld == InitWorld /\ [][NextWorld]_vars

----------------------------------------------------------------------------
(* find_partusage_by_definition(elem, defining_part_name, usage_name) and   *)
(* find_component_partusage(elem).  A search result is a node index, 0 for  *)
(* None.                                                                    *)

\* has_matching_def(node)
has_matching_def(node, defining_part_name) ==
    /\ node.kind = "PartUsage"
    /\ \E i \in DOMAIN node.part_definitions : node.part_definitions[i] = defining_part_name

\* matches_usage_name(node)
matches_usage_name(node, usage_name) ==
    IF usage_name = None THEN TRUE ELSE node.name = usage_name

\* here_matches of dfs(node)
HereMatches(node, defining_part_name, usage_name) ==
    /\ node.kind = "PartUsage"
    /\ has_matching_def(node, defining_part_name)
    /\ matches_usage_name(node, usage_name)

\* the loop body of dfs: acc = <<child_found, subtree_has_match>>, res = dfs(ch)
KeepLastFound(acc, res) ==
    <<IF res[1] # 0 THEN res[1] ELSE acc[1], acc[2] \/ res[2] \/ res[1] # 0>>
KeepFirstFound(acc, res) ==
    <<IF res[1] # 0 /\ acc[1] = 0 THEN res[1] ELSE acc[1], acc[2] \/ res[2] \/ res[1] # 0>>

\* what dfs(node) returns after its loop (lines 285-291)
DecideChildFirst(n, here_matches, acc) ==
    IF acc[1] # 0 THEN <<acc[1], TRUE>>
    ELSE IF here_matches THEN <<n, TRUE>>
    ELSE <<0, acc[2]>>
DecideDefaultsToNode(n, here_matches, acc) ==
    IF here_matches THEN <<n, TRUE>>
    ELSE IF acc[1] # 0 THEN <<acc[1], TRUE>>
    ELSE <<n, acc[2]>>
Decide(n, here_matches, acc) ==
    IF here_matches THEN <<n, TRUE>>
    ELSE IF acc[1] # 0 THEN <<acc[1], TRUE>>
    ELSE <<0, acc[2]>>

RECURSIVE FindDfs(_, _, _, _)
RECURSIVE FindLoop(_, _, _, _, _)
\* for ch in _children_iter(node): ...
FindLoop(d, chs, defining_part_name, usage_name, acc) ==
    IF chs = <<>> THEN acc
    ELSE FindLoop(d, Tail(chs), defining_part_name, usage_name,
                  KeepFirstFound(acc, FindDfs(d, Head(chs), defining_part_name, usage_name)))
\* dfs(node) of find_partusage_by_definition: <<found, subtree_has_match>>
FindDfs(d, n, defining_part_name, usage_name) ==
    LET here_matches == HereMatches(d[n], defining_part_name, usage_name)
    IN  Decide(n, here_matches,
               FindLoop(d, Children(d, n), defining_part_name, usage_name,
                        <<0, here_matches>>))

find_partusage_by_definition(d, elem, defining_part_name, usage_name) ==
    FindDfs(d, elem, defining_part_name, usage_name)[1]

\* get_part_def(node) and the test on its name
HereIsComponent(node) ==
    /\ node.kind = "PartUsage"
    /\ node.definition # None
    /\ node.definition = Str("Component")

\* what dfs(node) of find_component_partusage returns after its loop
ComponentDecide(n, is_part, acc) ==
    IF is_part /\ acc[2] THEN <<n, TRUE>>
    ELSE IF acc[1] # 0 THEN <<acc[1], TRUE>>
    ELSE <<0, acc[2]>>

RECURSIVE ComponentDfs(_, _)
RECURSIVE ComponentLoop(_, _, _)
ComponentLoop(d, chs, acc) ==
    IF chs = <<>> THEN acc
    ELSE ComponentLoop(d, Tail(chs), KeepFirstFound(acc, ComponentDfs(d, Head(chs))))
\* dfs(node) of find_component_partusage: <<found, subtree_has_component>>
ComponentDfs(d, n) ==
    ComponentDecide(n, d[n].kind = "PartUsage",
                    ComponentLoop(d, Children(d, n), <<0, HereIsComponent(d[n])>>))

find_component_partusage(d, elem) == ComponentDfs(d, elem)[1]

\* the arguments the searches are called with
DefNames == {"Component", "Other"}
UsageNames == {None, Str("nx"), Str("rt")}

FindByDefinition ==
    /\ status = "idle"
    /\ \E dn \in DefNames, un \in UsageNames :
          /\ call' = [op |-> "find_partusage_by_definition", elem |-> 1,
                      defining_part_name |-> dn, usage_name |-> un]
          /\ ret' = [returned |-> find_partusage_by_definition(doc, 1, dn, un)]
    /\ status' = "returned"
    /\ UNCHANGED <<exportVars, doc, stack, out, components, heap>>

FindComponent ==
    /\ status = "idle"
    /\ call' = [op |-> "find_component_partusage", elem |-> 1]
    /\ ret' = [returned |-> find_component_partusage(doc, 1)]
    /\ status' = "returned"
    /\ UNCHANGED <<exportVars, doc, stack, out, components, heap>>

\* Node profiles of the documents that are searched.
FindElement ==
    [kind |-> "Element", name |-> None, part_definitions |-> <<>>, definition |-> None,
     attrs |-> <<>>]
FindPart(name, part_definitions, definition) ==
    [kind |-> "PartUsage", name |-> Str(name), part_definitions |-> part_definitions,
     definition |-> definition, attrs |-> <<>>]
FindProfiles ==
    { FindElement,
      FindPart("nx", <<>>, None),
      FindPart("nx", <<"Component">>, Str("Component")),
      FindPart("rt", <<"Component">>, None),
      FindPart("rt", <<"Other", "Component">>, Str("Other")) }

FindDocs == TreesOver(FindNodes, FindProfiles)

InitFind ==
    /\ ExportIdle
    /\ doc \in FindDocs
    /\ call = None
    /\ stack = <<>>
    /\ out = <<>>
    /\ status = "idle"
    /\ ret = None
    /\ components = <<>>
    /\ heap = <<>>

NextFind == FindByDefinition \/ FindComponent

SpecFind == InitFind /\ [][NextFind]_vars

----------------------------------------------------------------------------
(* The component registry.  _components is an insertion-ordered dict: a      *)
(* sequence of [key, ref] entries, ref being the identity of a Component,    *)
(* its index in heap; 0 stands for None.                                     *)
(* heap[ref] = [name, typeID, translation, rotation, parent, children].     *)

Keys(comps) == {comps[i].key : i \in DOMAIN comps}

\* _components.get(key)
DictGet(comps, key) ==
    IF key \in Keys(comps)
    THEN comps[CHOOSE i \in DOMAIN comps : comps[i].key = key].ref
    ELSE 0

\* _components[key] = ref: a new key goes last, an old key keeps its place
DictSet(comps, key, ref) ==
    IF key \in Keys(comps)
    THEN [i \in DOMAIN comps |-> IF comps[i].key = key THEN [key |-> key, ref |-> ref]
                                  ELSE comps[i]]
    ELSE Append(comps, [key |-> key, ref |-> ref])

\* CartesianRepresentation(x, y, z)
CartesianRepresentation(x, y, z) == [x |-> x, y |-> y, z |-> z]

\* a Component that records its parent without joining the parent's children
NewComponentUnlinked(hp, name, typeID, translation, rotation, parent) ==
    Append(hp, [name |-> name, typeID |-> typeID, translation |-> translation,
                rotation |-> rotation, parent |-> parent, children |-> <<>>])

\* Component(name, typeID, translation, rotation, parent): the heap with the
\* new object, which is appended to its parent's children
NewComponent(hp, name, typeID, translation, rotation, parent) ==
    LET ref == Len(hp) + 1
        obj == [name |-> name, typeID |-> typeID, translation |-> translation,
                rotation |-> rotation, parent |-> parent, children |-> <<>>]
        hp1 == Append(hp, obj)
    IN  IF parent # 0 THEN [hp1 EXCEPT ![parent].children = Append(@, ref)] ELSE hp1

\* an error whose message does not say what went wrong
RaisedSameMessage(kind, msg) == [raised |-> kind, msg |-> "error"]

\* raise kind(msg): the exception class and what its message says
Raised(kind, msg) == [raised |-> kind, msg |-> msg]
Returned(v) == [returned |-> v]

\* create_component with the duplicate test after the construction
create_component_checks_late(comps, hp, name, typeID, translation_data, rotation_data, parent_name) ==
    LET parent_component == IF Truthy(parent_name) THEN DictGet(comps, parent_name.v) ELSE 0
        hp1 == NewComponent(hp, name, typeID,
                  CartesianRepresentation(translation_data.x, translation_data.y,
                                          translation_data.z),
                  CartesianRepresentation(rotation_data.x, rotation_data.y, rotation_data.z),
                  parent_component)
    IN  IF Truthy(parent_name) /\ parent_component = 0
        THEN [components |-> comps, heap |-> hp, ret |-> Raised("ValueError", "parent not found")]
        ELSE IF name \in Keys(comps)
        THEN [components |-> comps, heap |-> hp1, ret |-> Raised("ValueError", "already exists")]
        ELSE [components |-> DictSet(comps, name, Len(hp) + 1), heap |-> hp1,
              ret |-> Returned(name)]

\* create_component(name, typeID, translation_data, rotation_data, parent_name):
\* the registry, the heap and the outcome after the call
create_component(comps, hp, name, typeID, translation_data, rotation_data, parent_name) ==
    IF name \in Keys(comps)
    THEN [components |-> comps, heap |-> hp, ret |-> Raised("ValueError", "already exists")]
    ELSE LET translation == CartesianRepresentation(translation_data.x, translation_data.y,
                                                    translation_data.z)
             rotation == CartesianRepresentation(rotation_data.x, rotation_data.y,
                                                 rotation_data.z)
             parent_component == IF Truthy(parent_name) THEN DictGet(comps, parent_name.v)
                                 ELSE 0
         IN  IF Truthy(parent_name) /\ parent_component = 0
             THEN [components |-> comps, heap |-> hp,
                   ret |-> Raised("ValueError", "parent not found")]
             ELSE [components |-> DictSet(comps, name, Len(hp) + 1),
                   heap |-> NewComponent(hp, name, typeID, translation, rotation,
                                         parent_component),
                   ret |-> Returned(name)]

\* the text is a sequence of lines; a number is written as a literal token
FormatFloat(x) == [lit |-> "rational", neg |-> x < 0, abs |-> IF x < 0 THEN -x ELSE x]
FormatInt(n) == [lit |-> "integer", neg |-> n < 0, abs |-> IF n < 0 THEN -n ELSE n]

PartLine(indent, name, defs, subsets) ==
    [k |-> "part", indent |-> indent, name |-> name, defs |-> defs, subsets |-> subsets]
AttrLine(indent, name, value) ==
    [k |-> "attribute", indent |-> indent, name |-> name, value |-> value]
CloseLine(indent) == [k |-> "close", indent |-> indent]

RECURSIVE to_textual(_, _, _)
RECURSIVE ChildrenText(_, _, _)
RECURSIVE ChildrenTextReversed(_, _, _)
\* the children's texts, the last child first
ChildrenTextReversed(hp, chs, indent) ==
    IF chs = <<>> THEN <<>>
    ELSE ChildrenTextReversed(hp, Tail(chs), indent) \o to_textual(hp, Head(chs), indent)
\* for child in self.children: lines.append(child.to_textual(indent + 4))
ChildrenText(hp, chs, indent) ==
    IF chs = <<>> THEN <<>>
    ELSE to_textual(hp, Head(chs), indent) \o ChildrenText(hp, Tail(chs), indent)
\* Component.to_textual(indent)
to_textual(hp, ref, indent) ==
    LET self == hp[ref]
    IN  << PartLine(indent, self.name, <<"Onshape_Component", "Omniverse_Component">>,
                    <<"children">>),
           AttrLine(indent + 4, "tx", FormatFloat(self.translation.x)),
           AttrLine(indent + 4, "ty", FormatFloat(self.translation.y)),
           AttrLine(indent + 4, "tz", FormatFloat(self.translation.z)),
           AttrLine(indent + 4, "rx", FormatFloat(self.rotation.x)),
           AttrLine(indent + 4, "ry", FormatFloat(self.rotation.y)),
           AttrLine(indent + 4, "rz", FormatFloat(self.rotation.z)),
           AttrLine(indent + 4, "typeID", FormatInt(self.typeID)) >>
        \o ChildrenText(hp, self.children, indent + 4)
        \o << CloseLine(indent) >>

\* get_sysmlv2_text that falls back on the first registered component when
\* the name is not registered
get_sysmlv2_text_defaults(comps, hp, root_component_name, package_name) ==
    LET found == DictGet(comps, root_component_name)
        root == IF found = 0 /\ comps # <<>> THEN comps[1].ref ELSE found
    IN  IF root = 0
        THEN Raised("ValueError", "root not found")
        ELSE Returned(
               << [k |-> "package", indent |-> 0, name |-> package_name],
                  [k |-> "pu_geometry_pkg"],
                  [k |-> "blank"],
                  [k |-> "part def", indent |-> 5, name |-> "Context"],
                  PartLine(8, hp[root].name, <<"Component">>, <<>>) >>
               \o ChildrenText(hp, hp[root].children, 12)
               \o << CloseLine(8), CloseLine(4), CloseLine(0) >>)

\* get_sysmlv2_text(root_component_name, package_name)
get_sysmlv2_text(comps, hp, root_component_name, package_name) ==
    LET root == DictGet(comps, root_component_name)
    IN  IF root = 0
        THEN Raised("ValueError", "root not found")
        ELSE Returned(
               << [k |-> "package", indent |-> 0, name |-> package_name],
                  [k |-> "pu_geometry_pkg"],
                  [k |-> "blank"],
                  [k |-> "part def", indent |-> 5, name |-> "Context"],
                  PartLine(8, hp[root].name, <<"Component">>, <<>>) >>
               \o ChildrenText(hp, hp[root].children, 12)
               \o << CloseLine(8), CloseLine(4), CloseLine(0) >>)

----------------------------------------------------------------------------
(* syside.load_model: the document tree of a text (the parser is the        *)
(* collaborator; this is what it makes of the lines get_sysmlv2_text writes) *)

\* the expression a number token is parsed to: a literal, or for a negative
\* number an operator expression the compiler evaluates
LiteralOf(tok) ==
    IF tok.neg THEN Expr(0 - tok.abs)
    ELSE IF tok.lit = "rational" THEN LitRat(tok.abs) ELSE LitInt(tok.abs)

DocNode(parent, kind, name, part_definitions) ==
    [parent |-> parent, kind |-> kind, name |-> name, part_definitions |-> part_definitions,
     definition |-> None, attrs |-> <<>>]

\* the elements of pu_geometry_pkg below the element `owner`, the first of them
\* getting index `first`
GeometryPkgNodes(owner, first) ==
    << DocNode(owner, "Element", Str("Onshape_Component"), <<>>),
       DocNode(owner, "Element", Str("Omniverse_Component"), <<>>),
       DocNode(owner, "Element", Str("Component"), <<>>),
       DocNode(first + 2, "PartUsage", Str("children"), <<"Component">>) >>

\* st = [nodes, open]: the elements so far and the indices of the open blocks
ParseLine(line, st) ==
    LET owner == IF st.open = <<>> THEN 1 ELSE Head(st.open)
        next == Len(st.nodes) + 1
    IN  CASE line.k = "package" ->
               [nodes |-> Append(st.nodes, DocNode(owner, "Element", Str(line.name), <<>>)),
                open |-> <<next>> \o st.open]
          [] line.k = "pu_geometry_pkg" ->
               [nodes |-> st.nodes \o GeometryPkgNodes(owner, next), open |-> st.open]
          [] line.k = "blank" -> st
          [] line.k = "part def" ->
               [nodes |-> Append(st.nodes, DocNode(owner, "Element", Str(line.name), <<>>)),
                open |-> <<next>> \o st.open]
          [] line.k = "part" ->
               [nodes |-> Append(st.nodes,
                                 DocNode(owner, "PartUsage",
                                         IF line.name = "" THEN None ELSE Str(line.name),
                                         line.defs)),
                open |-> <<next>> \o st.open]
          [] line.k = "attribute" ->
               [nodes |-> [st.nodes EXCEPT ![owner].attrs =
                              Append(@, Attr(line.name, LiteralOf(line.value)))],
                open |-> st.open]
          [] line.k = "close" -> [nodes |-> st.nodes, open |-> Tail(st.open)]

RECURSIVE ParseLines(_, _)
ParseLines(lines, st) ==
    IF lines = <<>> THEN st ELSE ParseLines(Tail(lines), ParseLine(Head(lines), st))

\* the document of a text: element 1 is the root namespace
Parse(lines) ==
    ParseLines(lines, [nodes |-> <<DocNode(0, "Element", None, <<>>)>>, open |-> <<>>]).nodes

----------------------------------------------------------------------------
(* load_from_sysml(root, clear_existing) *)

\* _collect_attr raises when the compiler cannot evaluate the expression, or
\* when float() is given the value of a string literal: LiteralString is an
\* Expression and is tested for that first (lines 513-518)
LoadCollectRaises(attrs) ==
    \E a \in Range(attrs) :
        \/ a.expr.k = "Expression" /\ ~a.expr.ok
        \/ a.expr.k = "LiteralString"

\* f"Unnamed_{len(_components)}"
UnnamedName(n) ==
    CASE n = 0 -> "Unnamed_0"
      [] n = 1 -> "Unnamed_1"
      [] n = 2 -> "Unnamed_2"
      [] n = 3 -> "Unnamed_3"
      [] n = 4 -> "Unnamed_4"
      [] OTHER -> "Unnamed_n"

\* whether visit materialises a PartUsage (line 544)
Materialises(node) ==
    /\ node.kind = "PartUsage"
    /\ \/ "typeID" \in DOMAIN CollectVals(node.attrs)
       \/ \E i \in DOMAIN node.part_definitions : node.part_definitions[i] = "Component"

\* st = [components, heap, raised]
RECURSIVE LoadVisit(_, _, _, _)
RECURSIVE LoadChildren(_, _, _, _)
\* el.owned_elements.for_each(lambda c: visit(c, parent_component, level + 1))
\* inside try/except: an exception of a child's visit ends the loop and is
\* swallowed
LoadChildren(d, chs, parent_component, st) ==
    IF chs = <<>> THEN st
    ELSE LET st1 == LoadVisit(d, Head(chs), parent_component, st)
         IN  IF st1.raised THEN [st1 EXCEPT !.raised = FALSE]
             ELSE LoadChildren(d, Tail(chs), parent_component, st1)
\* visit(el, parent_component)
LoadVisit(d, el, parent_component, st) ==
    LET node == d[el]
    IN  IF node.kind = "PartUsage" /\ LoadCollectRaises(node.attrs)
        THEN [st EXCEPT !.raised = TRUE]
        ELSE IF Materialises(node)
        THEN LET vals == CollectVals(node.attrs)
                 n == Len(st.components)
                 name == IF Truthy(node.name) THEN node.name.v ELSE UnnamedName(n)
                 ref == Len(st.heap) + 1
                 hp1 == NewComponent(st.heap, name, Get(vals, "typeID", n + 1),
                           CartesianRepresentation(Get(vals, "tx", 0), Get(vals, "ty", 0),
                                                   Get(vals, "tz", 0)),
                           CartesianRepresentation(Get(vals, "rx", 0), Get(vals, "ry", 0),
                                                   Get(vals, "rz", 0)),
                           parent_component)
             IN  LoadChildren(d, Children(d, el), ref,
                              [components |-> DictSet(st.components, name, ref),
                               heap |-> hp1, raised |-> FALSE])
        ELSE LoadChildren(d, Children(d, el), parent_component, st)

\* roots = [c for c in _components.values() if c.parent is None];
\* if roots: roots = roots[0]
FirstRoot(comps, hp) ==
    LET roots == SelectSeq(comps, LAMBDA e : hp[e.ref].parent = 0)
    IN  IF roots = <<>> THEN [t |-> "list"] ELSE [t |-> "Component", ref |-> roots[1].ref]

load_from_sysml(comps, hp, d, root, clear_existing) ==
    LET st == LoadVisit(d, root, 0,
                        [components |-> IF clear_existing THEN <<>> ELSE comps,
                         heap |-> hp, raised |-> FALSE])
    IN  [components |-> st.components, heap |-> st.heap,
         ret |-> IF st.raised THEN Raised("Exception", "expression evaluation")
                 ELSE Returned(FirstRoot(st.components, st.heap))]

----------------------------------------------------------------------------
(* The operations on the registry as actions *)

Names == {"", "a", "b"}
ParentNames == {None} \cup {Str(n) : n \in Names}
Vec(x, y, z) == [x |-> x, y |-> y, z |-> z]
\* the typeID and pose data a component is created with
Payloads ==
    { [typeID |-> 1, translation_data |-> Vec(0, 0, 0), rotation_data |-> Vec(0, 0, 0)],
      [typeID |-> 2, translation_data |-> Vec(1, 2, 3), rotation_data |-> Vec(0, 0, -1)] }

\* the data a component of a name is created with: either for "a", one for
\* each other name
PayloadsOf(name) ==
    IF name = "a" THEN Payloads
    ELSE {p \in Payloads : p.typeID = (IF name = "" THEN 1 ELSE 2)}

CreateComponent ==
    /\ \E name \in Names, parent_name \in ParentNames : \E p \in PayloadsOf(name) :
          LET r == create_component(components, heap, name, p.typeID, p.translation_data,
                                    p.rotation_data, parent_name)
          IN  /\ Len(r.heap) <= MaxCreated
              /\ call' = [op |-> "create_component", name |-> name, typeID |-> p.typeID,
                          translation_data |-> p.translation_data,
                          rotation_data |-> p.rotation_data, parent_name |-> parent_name]
              /\ components' = r.components
              /\ heap' = r.heap
              /\ ret' = r.ret
    /\ UNCHANGED <<exportVars, doc, stack, out, status>>

\* clear_components that forgets only the entry registered last
ClearComponentsDropsLast ==
    /\ call' = [op |-> "clear_components"]
    /\ components' = IF components = <<>> THEN <<>>
                     ELSE SubSeq(components, 1, Len(components) - 1)
    /\ ret' = Returned(None)
    /\ UNCHANGED <<exportVars, doc, stack, out, status, heap>>

ClearComponents ==
    /\ call' = [op |-> "clear_components"]
    /\ components' = <<>>
    /\ ret' = Returned(None)
    /\ UNCHANGED <<exportVars, doc, stack, out, status, heap>>

GetText ==
    /\ \E root_component_name \in Names :
          LET r == get_sysmlv2_text(components, heap, root_component_name, "MyStructure")
          IN  /\ call' = [op |-> "get_sysmlv2_text",
                          root_component_name |-> root_component_name,
                          package_name |-> "MyStructure"]
              /\ ret' = r
    /\ UNCHANGED <<exportVars, doc, stack, out, status, components, heap>>

\* syside.load_model(sysml_source=text) on the text get_sysmlv2_text has just
\* returned
LoadModel ==
    /\ call # None
    /\ call.op = "get_sysmlv2_text"
    /\ "returned" \in DOMAIN ret
    /\ call' = [op |-> "load_model"]
    /\ doc' = Parse(ret.returned)
    /\ ret' = Returned(None)
    /\ UNCHANGED <<exportVars, stack, out, status, components, heap>>

\* the elements load_from_sysml is called on: the document root, or the root
\* part found as tests/test_geometry_api.py finds it
LoadRoots(d) ==
    {1} \cup ({find_partusage_by_definition(d, 1, "Component", Str(n)) : n \in Names} \ {0})

LoadFromSysml ==
    /\ doc # <<>>
    /\ \E root \in LoadRoots(doc), clear_existing \in BOOLEAN :
          LET r == load_from_sysml(components, heap, doc, root, clear_existing)
          IN  /\ Len(r.heap) <= MaxHeap
              /\ call' = [op |-> "load_from_sysml", root |-> root,
                          clear_existing |-> clear_existing]
              /\ components' = r.components
              /\ heap' = r.heap
              /\ ret' = r.ret
    /\ UNCHANGED <<exportVars, doc, stack, out, status>>

Init ==
    /\ ExportIdle
    /\ doc = <<>>
    /\ call = None
    /\ stack = <<>>
    /\ out = <<>>
    /\ status = "idle"
    /\ ret = None
    /\ components = <<>>
    /\ heap = <<>>

Next == CreateComponent \/ ClearComponents \/ GetText \/ LoadModel \/ LoadFromSysml

Spec == Init /\ [][Next]_vars


----------------------------------------------------------------------------
(* Building a tree with create_component and asking for its text *)

CreateForText ==
    /\ \E name \in Names, parent_name \in ParentNames : \E p \in PayloadsOf(name) :
          LET r == create_component(components, heap, name, p.typeID, p.translation_data,
                                    p.rotation_data, parent_name)
          IN  /\ Len(r.heap) <= TextCreated
              /\ call' = [op |-> "create_component", name |-> name, typeID |-> p.typeID,
                          translation_data |-> p.translation_data,
                          rotation_data |-> p.rotation_data, parent_name |-> parent_name]
              /\ components' = r.components
              /\ heap' = r.heap
              /\ ret' = r.ret
    /\ UNCHANGED <<exportVars, doc, stack, out, status>>

NextText == CreateForText \/ ClearComponents \/ GetText

SpecText == Init /\ [][NextText]_vars

----------------------------------------------------------------------------
(* load_from_sysml on documents that were not written by get_sysmlv2_text *)

LoadPart(name, part_definitions, attrs) ==
    [kind |-> "PartUsage", name |-> name, part_definitions |-> part_definitions,
     definition |-> None, attrs |-> attrs]

\* the elements of these documents: an element that is no part, an unnamed
\* part with neither typeID nor the Component definition, a part with typeID
\* and pose, a part defined by Component without attributes, and a part one
\* of whose attributes holds an expression that cannot be evaluated
LoadProfiles ==
    { WorldElement,
      LoadPart(None, <<>>, <<Attr("tx", LitRat(1))>>),
      LoadPart(Str("a"), <<>>, <<Attr("typeID", LitInt(1)), Attr("tx", LitRat(1))>>),
      LoadPart(Str("b"), <<"Component">>, <<>>),
      LoadPart(Str("a"), <<>>, <<Attr("typeID", LitInt(2)), Attr("rx", BadExpr)>>) }

LoadDocs == TreesOver(LoadNodes, LoadProfiles)

InitLoad ==
    /\ ExportIdle
    /\ doc \in LoadDocs
    /\ call = None
    /\ stack = <<>>
    /\ out = <<>>
    /\ status = "idle"
    /\ ret = None
    /\ components = <<>>
    /\ heap = <<>>

NextLoad == LoadFromSysml \/ ClearComponents

SpecLoad == InitLoad /\ [][NextLoad]_vars

----------------------------------------------------------------------------
(* components_from_part_world called with either unit of angle and with    *)
(* each Euler convention                                                    *)

\* the values of the euler_axes argument
EulerAxes == {"sxyz", "szyx", "rzyx", "rxyz"}

\* a quarter turn in the unit of the call: 90 degrees, or pi/2 (one step of
\* the lattice)
QuarterTurn(angles_in_degrees) == IF angles_in_degrees THEN 90 ELSE 1

\* the elements of these documents, their angles written in the unit q
AngleProfiles(q) ==
    { WorldElement,
      WorldPart(Str("nx"), <<Attr("tx", LitRat(1)), Attr("rz", LitRat(q)),
                             Attr("typeID", LitInt(0))>>),
      WorldPart(Str("tc"), <<Attr("ty", LitRat(2)), Attr("rx", LitRat(q)),
                             Attr("ry", LitRat(3 * q)), Attr("typeID", LitInt(2))>>),
      WorldPart(None, <<Attr("tz", LitRat(3)), Attr("ry", LitRat(q))>>) }

InitAngles ==
    /\ ExportIdle
    /\ \E angles_in_degrees \in BOOLEAN, euler_axes \in EulerAxes :
          /\ call = WorldCall(1, angles_in_degrees, euler_axes)
          /\ doc \in TreesOver(AngleNodes, AngleProfiles(QuarterTurn(angles_in_degrees)))
    /\ stack = <<[el |-> 1, parent_state |-> None]>>
    /\ out = <<>>
    /\ status = "running"
    /\ ret = None
    /\ components = <<>>
    /\ heap = <<>>

NextAngles == Visit \/ WorldReturn

SpecAngles == InitAngles /\ [][NextAngles]_vars

----------------------------------------------------------------------------
(* The Onshape glue: insert_assembly_from_url, insert_assembly_from_mvid   *)
(* (onshape_helper.py) and _export_components (tests/onshape_export.py).   *)
(* The remote service is the environment: each remote call is logged in    *)
(* `remote` with the outcome the service chose for it.                     *)

\* what client.assemblies_api.create_instance can do: return, or raise an
\* ApiTypeError whose text holds "received_data", another ApiTypeError, or
\* any other exception of the client
CreateInstanceOutcomes ==
    { [result |-> "returned", kind |-> "", msg |-> ""],
      [result |-> "raised", kind |-> "ApiTypeError", msg |-> "received_data"],
      [result |-> "raised", kind |-> "ApiTypeError", msg |-> "other"],
      [result |-> "raised", kind |-> "ApiException", msg |-> "other"] }

\* the except clause that ignores every ApiTypeError
IgnoredAnyApiTypeError(outcome) ==
    /\ outcome.result = "raised"
    /\ outcome.kind = "ApiTypeError"

\* the except clause of the two insert functions: an ApiTypeError with
\* "received_data" in its text is ignored, everything else is raised again
\* (an exception that is no ApiTypeError is not caught at all)
Ignored(outcome) ==
    /\ outcome.result = "raised"
    /\ outcome.kind = "ApiTypeError"
    /\ outcome.msg = "received_data"

\* the names the service gives to an inserted instance
InsertedNames == {"i1", "i2"}

\* what get_assembly_info followed by get_last_inserted_top_level_assembly /
\* get_last_subassembly_info can give: raise_for_status raises, the assembly
\* has no instance (None), or the last instance with its name
AssemblyInfoOutcomes ==
    { [result |-> "raised", kind |-> "HTTPError", info |-> None],
      [result |-> "returned", kind |-> "", info |-> None] }
    \cup { [result |-> "returned", kind |-> "", info |-> [t |-> "dict", name |-> n]] :
             n \in InsertedNames }

\* what transform_by_name can do: return, raise ValueError when no part or
\* assembly has the name, or fail in one of its remote calls
TransformOutcomes ==
    { [result |-> "returned", kind |-> ""],
      [result |-> "raised", kind |-> "ValueError"],
      [result |-> "raised", kind |-> "ApiException"] }

\* the records _export_components is given: name and onshape_url (None and ""
\* are both "no url"; the urls are ones parse_onshape_url accepts)
ExportProfiles ==
    { [name |-> "nx", onshape_url |-> None],
      [name |-> "r", onshape_url |-> Str("")],
      [name |-> "tc", onshape_url |-> Str("u")],
      [name |-> "nx", onshape_url |-> Str("v")] }

RECURSIVE SeqsUpTo(_, _)
SeqsUpTo(n, S) ==
    IF n = 0 THEN {<<>>}
    ELSE LET shorter == SeqsUpTo(n - 1, S)
         IN  shorter \cup {Append(s, x) : s \in {t \in shorter : Len(t) = n - 1}, x \in S}

registryVars == <<doc, stack, out, status, components, heap>>

\* a caller calls insert_assembly_from_url or insert_assembly_from_mvid; the
\* statements up to the try are local
CallInsert ==
    /\ pc = "idle"
    /\ \E op \in {"insert_assembly_from_url", "insert_assembly_from_mvid"} :
          call' = [op |-> op]
    /\ pc' = "create_instance"
    /\ ret' = None
    /\ UNCHANGED <<registryVars, export_components, comp_index, placement, inserted, remote>>

\* a caller calls _export_components(target_url, components)
CallExport ==
    /\ pc = "idle"
    /\ \E cs \in SeqsUpTo(ExportRecords, ExportProfiles) : export_components' = cs
    /\ call' = [op |-> "_export_components"]
    /\ comp_index' = 1
    /\ inserted' = <<>>
    /\ placement' = None
    /\ pc' = "loop"
    /\ ret' = None
    /\ UNCHANGED <<registryVars, remote>>

\* for comp in components: ... up to the call of insert_assembly_from_url;
\* return inserted when the records are used up
ExportLoop ==
    /\ pc = "loop"
    /\ IF comp_index > Len(export_components)
       THEN /\ ret' = Returned(inserted)
            /\ pc' = "done"
            /\ UNCHANGED comp_index
       ELSE IF ~Truthy(export_components[comp_index].onshape_url)
       THEN /\ comp_index' = comp_index + 1
            /\ UNCHANGED <<pc, ret>>
       ELSE /\ pc' = "create_instance"
            /\ UNCHANGED <<comp_index, ret>>
    /\ UNCHANGED <<registryVars, call, export_components, placement, inserted, remote>>

\* try: response = client.assemblies_api.create_instance(...) except ...
CreateInstance ==
    /\ pc = "create_instance"
    /\ \E outcome \in CreateInstanceOutcomes :
          /\ remote' = Append(remote, [api |-> "create_instance", outcome |-> outcome.result,
                                       kind |-> outcome.kind, msg |-> outcome.msg,
                                       name |-> None])
          /\ IF outcome.result = "returned" \/ Ignored(outcome)
             THEN /\ pc' = "get_assembly_info"
                  /\ UNCHANGED ret
             ELSE /\ pc' = "done"
                  /\ ret' = Raised(outcome.kind, outcome.msg)
    /\ UNCHANGED <<registryVars, call, export_components, comp_index, placement, inserted>>

\* assembly_info = get_assembly_info(...); info = get_last_...(assembly_info);
\* return info.  In _export_components the value is `placement`, and
\* placement["name"] is evaluated for the call of transform_by_name.
GetAssemblyInfo ==
    /\ pc = "get_assembly_info"
    /\ \E outcome \in AssemblyInfoOutcomes :
          /\ remote' = Append(remote, [api |-> "get_assembly_info",
                                       outcome |-> outcome.result,
                                       kind |-> outcome.kind, msg |-> "other",
                                       name |-> IF outcome.info = None THEN None
                                                ELSE Str(outcome.info.name)])
          /\ IF outcome.result = "raised"
             THEN /\ pc' = "done"
                  /\ ret' = Raised(outcome.kind, "other")
                  /\ UNCHANGED placement
             ELSE IF call.op # "_export_components"
             THEN /\ pc' = "done"
                  /\ ret' = Returned(outcome.info)
                  /\ UNCHANGED placement
             ELSE IF outcome.info = None
             THEN /\ pc' = "done"
                  /\ ret' = Raised("TypeError", "not subscriptable")
                  /\ placement' = outcome.info
             ELSE /\ pc' = "transform_by_name"
                  /\ placement' = outcome.info
                  /\ UNCHANGED ret
    /\ UNCHANGED <<registryVars, call, export_components, comp_index, inserted>>

\* transform_by_name(client, target_url, placement["name"], transform);
\* inserted[comp["name"]] = {...}
TransformByName ==
    /\ pc = "transform_by_name"
    /\ \E outcome \in TransformOutcomes :
          /\ remote' = Append(remote, [api |-> "transform_by_name",
                                       outcome |-> outcome.result,
                                       kind |-> outcome.kind, msg |-> "other",
                                       name |-> Str(placement.name)])
          /\ IF outcome.result = "returned"
             THEN /\ inserted' = DictSet(inserted, export_components[comp_index].name,
                                         [source_url |-> export_components[comp_index].onshape_url.v,
                                          inserted_name |-> placement.name])
                  /\ comp_index' = comp_index + 1
                  /\ pc' = "loop"
                  /\ UNCHANGED ret
             ELSE /\ pc' = "done"
                  /\ ret' = Raised(outcome.kind, "other")
                  /\ UNCHANGED <<inserted, comp_index>>
    /\ UNCHANGED <<registryVars, call, export_components, placement>>

InitExport ==
    /\ doc = <<>>
    /\ call = None
    /\ stack = <<>>
    /\ out = <<>>
    /\ status = "idle"
    /\ ret = None
    /\ components = <<>>
    /\ heap = <<>>
    /\ ExportIdle

NextExport ==
    CallInsert \/ CallExport \/ ExportLoop \/ CreateInstance \/ GetAssemblyInfo
        \/ TransformByName

SpecExport == InitExport /\ [][NextExport]_vars
----------------------------------------------------------------------------
(* Claims about components_from_part_world, checked under SpecWorld *)

\* the path from the traversal root down to node n (0: the empty path)
RECURSIVE PathTo(_, _)
PathTo(d, n) == IF n = 0 THEN <<>> ELSE Append(PathTo(d, d[n].parent), n)

\* the product, first factor leftmost, of the local transforms of a sequence
\* of PartUsage nodes
RECURSIVE LocalProduct(_, _)
LocalProduct(d, ns) ==
    IF ns = <<>> THEN Identity4
    ELSE MatMul(LocalTransform(CollectVals(d[Head(ns)].attrs), call.angles_in_degrees),
                LocalProduct(d, Tail(ns)))

PartsOnPath(d, n) == SelectSeq(PathTo(d, n), LAMBDA m : d[m].kind = "PartUsage")
PathProduct(d, n) == LocalProduct(d, PartsOnPath(d, n))

\* the nodes for which the traversal appends a record, in document pre-order
EmittersPreOrder(d) == SelectSeq(PreOrder(d, 1), LAMBDA m : Emits(d[m]))

AnglesOut(e) == IF call.angles_in_degrees THEN <<to_deg(e[1]), to_deg(e[2]), to_deg(e[3])>> ELSE e

\* C1: the transform handed to the children of a node is the ordered product,
\* root first, of the local transforms of the PartUsage nodes on the path from
\* the traversal root to that node (a non-PartUsage node hands its incoming
\* transform on unchanged), and the absolute pose of every record is read off
\* that product for the record's own node.
C1_AbsoluteTransformIsPathProduct ==
    /\ \A f \in DOMAIN stack :
          stack[f].parent_state # None =>
              stack[f].parent_state.T = PathProduct(doc, doc[stack[f].el].parent)
    /\ LET em == EmittersPreOrder(doc)
       IN  \A k \in DOMAIN out :
              LET T == PathProduct(doc, em[k])
              IN  /\ <<out[k].abs_tx, out[k].abs_ty, out[k].abs_tz>>
                         = <<T[1][4], T[2][4], T[3][4]>>
                  /\ <<out[k].abs_rx, out[k].abs_ry, out[k].abs_rz>>
                         = AnglesOut(euler_from_matrix(T, call.euler_axes))

\* a visit is pending below two nested PartUsage nodes whose local transforms
\* do not commute
C1_Witness ==
    \E f \in DOMAIN stack :
        LET p == doc[stack[f].el].parent
            g == IF p = 0 THEN 0 ELSE doc[p].parent
        IN  /\ p # 0 /\ g # 0
            /\ doc[p].kind = "PartUsage" /\ doc[g].kind = "PartUsage"
            /\ LocalProduct(doc, <<g, p>>) # LocalProduct(doc, <<p, g>>)
            /\ stack[f].parent_state.T = LocalProduct(doc, <<g, p>>)
            /\ Len(out) >= 2

\* the nearest proper ancestor of n that emitted a record, 0 when there is none
RECURSIVE NearestEmitter(_, _)
NearestEmitter(d, n) ==
    LET p == d[n].parent
    IN  IF p = 0 THEN 0 ELSE IF Emits(d[p]) THEN p ELSE NearestEmitter(d, p)

\* the typeID a PartUsage carries: int(vals["typeID"]), None without one
TypeIdOf(node) ==
    LET vals == CollectVals(node.attrs)
    IN  IF "typeID" \in DOMAIN vals THEN Num(vals["typeID"]) ELSE None

\* C2: every record carries the full name and the typeID of the nearest proper
\* ancestor that emitted a record, and None for both when there is none.
C2_ParentLinkIsNearestEmitter ==
    \A k \in DOMAIN out :
        LET a == NearestEmitter(doc, EmittersPreOrder(doc)[k])
        IN  IF a = 0
            THEN out[k].parent_name = None /\ out[k].parent_typeID = None
            ELSE /\ out[k].parent_name = Str(NameOrEmpty(doc[a].name))
                 /\ out[k].parent_typeID = TypeIdOf(doc[a])

\* C3: a record is emitted exactly for the PartUsage nodes that carry a typeID
\* attribute, so the returned list has as many records as there are such parts.
HasTypeID(node) == node.kind = "PartUsage" /\ "typeID" \in DOMAIN CollectVals(node.attrs)
C3_RecordsAreTypeIdParts ==
    status = "returned" =>
        Len(out) = Cardinality({n \in DOMAIN doc : HasTypeID(doc[n])})

\* what a record shows of the node it was emitted for
RecordKey(rec) == <<rec.name, rec.tx, rec.ty, rec.tz, rec.rx, rec.ry, rec.rz>>
NodeKey(node) ==
    LET vals == CollectVals(node.attrs)
    IN  <<NameOrEmpty(node.name), Get(vals, "tx", 0), Get(vals, "ty", 0), Get(vals, "tz", 0),
          Get(vals, "rx", 0), Get(vals, "ry", 0), Get(vals, "rz", 0)>>

\* C4: the records are those of the emitting nodes, one each, in depth-first
\* pre-order of the document (a node before its descendants, an earlier
\* sibling's subtree before a later sibling); while the traversal runs the
\* list is a prefix of that order.
C4_RecordsInPreOrder ==
    status \in {"running", "returned"} =>
        LET em == EmittersPreOrder(doc)
        IN  /\ Len(out) <= Len(em)
            /\ \A k \in DOMAIN out : RecordKey(out[k]) = NodeKey(doc[em[k]])
            /\ status = "returned" => Len(out) = Len(em)

\* a list was returned for a tree in which an emitting node has an emitting
\* child and a later emitting sibling
C4_Witness ==
    /\ status = "returned"
    /\ \E i, j, k \in DOMAIN doc :
          /\ Emits(doc[i]) /\ Emits(doc[j]) /\ Emits(doc[k])
          /\ doc[j].parent = i /\ doc[k].parent = doc[i].parent /\ i < k
          /\ NodeKey(doc[j]) # NodeKey(doc[k])
          /\ Len(out) >= 3


\* C30: components_from_part_world raises nothing and returns a list for
\* every tree whose attributes are numeric or string literals, whatever the
\* names of the parts (empty, one character long, or none) and however the
\* parts are nested.
C30_LiteralTreesNeverRaise ==
    (\A n \in DOMAIN doc : \A a \in Range(doc[n].attrs) :
          a.expr.k \in {"LiteralRational", "LiteralInteger", "LiteralString"})
        => status # "raised"
----------------------------------------------------------------------------
(* Claims about the tree searches, checked under SpecFind *)

ByDefinitionReturned == status = "returned" /\ call.op = "find_partusage_by_definition"
ComponentReturned == status = "returned" /\ call.op = "find_component_partusage"

\* the nodes that satisfy the filter of the call
Matching == {n \in DOMAIN doc : HereMatches(doc[n], call.defining_part_name, call.usage_name)}

\* C5: the node find_partusage_by_definition returns satisfies the match
\* predicate and has no proper ancestor that does; so a matching search root is
\* returned whatever matches below it, and a single matching node is returned.
C5_ReturnedMatchHasNoMatchingAncestor ==
    ByDefinitionReturned =>
        /\ ret.returned # 0 =>
              /\ ret.returned \in Matching
              /\ ProperAncestors(doc, ret.returned) \cap Matching = {}
        /\ 1 \in Matching => ret.returned = 1
        /\ \A m \in Matching : Matching = {m} => ret.returned = m

\* the root matches and a deeper node matches too
C5_Witness ==
    /\ ByDefinitionReturned
    /\ 1 \in Matching
    /\ \E m \in Matching : Depth(doc, m) >= 2
    /\ ret.returned = 1

\* C6 as claimed: no matching node of the tree, in whatever branch, is less
\* deep than the returned node.
C6_ReturnedIsShallowestMatch ==
    ByDefinitionReturned =>
        (ret.returned # 0 =>
            \A m \in Matching : Depth(doc, ret.returned) <= Depth(doc, m))

\* C6 as amended: the returned node is the first matching node in document
\* order (depth-first pre-order), None when there is no matching node; hence no
\* matching node on its root path is less deep.
FirstOrNone(s) == IF s = <<>> THEN 0 ELSE Head(s)
C6_ReturnedIsFirstMatchInDocumentOrder ==
    ByDefinitionReturned =>
        ret.returned = FirstOrNone(SelectSeq(PreOrder(doc, 1), LAMBDA n : n \in Matching))

\* the returned node lies deeper than a matching node of a later branch
C6_Witness ==
    /\ ByDefinitionReturned
    /\ ret.returned # 0
    /\ \E m \in Matching :
          /\ Depth(doc, m) < Depth(doc, ret.returned)
          /\ m \notin ProperAncestors(doc, ret.returned)

\* C7: each search returns None exactly when no node of the tree satisfies its
\* predicate (for find_component_partusage: being a PartUsage whose definition
\* is named Component); without a match it returns no node, not the root.
C7_NoneIffNoMatch ==
    /\ ByDefinitionReturned => (ret.returned = 0 <=> Matching = {})
    /\ ComponentReturned =>
          (ret.returned = 0 <=> ~\E n \in DOMAIN doc : HereIsComponent(doc[n]))

\* None was returned for a tree whose root is a part and that holds parts with
\* definitions, none of which matches
C7_Witness ==
    /\ ByDefinitionReturned
    /\ ret.returned = 0
    /\ doc[1].kind = "PartUsage"
    /\ \E n \in DOMAIN doc : has_matching_def(doc[n], call.defining_part_name)

\* C23: the node find_component_partusage returns is a PartUsage whose own
\* part definition is named Component; a PartUsage without that definition is
\* never returned, whatever its descendants are.
C23_ReturnedIsItselfAComponent ==
    ComponentReturned =>
        (ret.returned # 0 => HereIsComponent(doc[ret.returned]))

----------------------------------------------------------------------------
(* Claims about the registry, checked under Spec *)

\* the components of the tree below (and including) ref, parents first
RECURSIVE Subtree(_, _)
RECURSIVE SubtreeEach(_, _)
SubtreeEach(hp, refs) ==
    IF refs = <<>> THEN <<>> ELSE Subtree(hp, Head(refs)) \o SubtreeEach(hp, Tail(refs))
Subtree(hp, ref) == <<ref>> \o SubtreeEach(hp, hp[ref].children)

\* the tree below r1 in heap h1 and the tree below r2 in heap h2 have the same
\* names, typeIDs, local poses, and children in the same order
RECURSIVE Isomorphic(_, _, _, _)
Isomorphic(h1, r1, h2, r2) ==
    /\ h1[r1].name = h2[r2].name
    /\ h1[r1].typeID = h2[r2].typeID
    /\ h1[r1].translation = h2[r2].translation
    /\ h1[r1].rotation = h2[r2].rotation
    /\ Len(h1[r1].children) = Len(h2[r2].children)
    /\ \A c \in DOMAIN h1[r1].children :
          Isomorphic(h1, h1[r1].children[c], h2, h2[r2].children[c])

\* name n is registered as the root of a tree with unique, non-empty names, the
\* document is the parse of its text, and this step loads it from its root part
RoundTripStep(n) ==
    /\ n \in Keys(components)
    /\ heap[DictGet(components, n)].parent = 0
    /\ LET tree == Subtree(heap, DictGet(components, n))
       IN  /\ \A i \in DOMAIN tree : heap[tree[i]].name # ""
           /\ \A i, j \in DOMAIN tree : heap[tree[i]].name = heap[tree[j]].name => i = j
    /\ doc = Parse(get_sysmlv2_text(components, heap, n, "MyStructure").returned)
    /\ call'.op = "load_from_sysml"
    /\ call'.clear_existing
    /\ call'.root = find_partusage_by_definition(doc, 1, "Component", Str(n))

\* C8: loading the text of a tree built by create_component yields an
\* isomorphic tree: same names, typeIDs and local poses for every component,
\* the root included, same parent/child relationships and child order.
C8_RoundTripIsIsomorphic ==
    [][\A n \in Names :
          RoundTripStep(n) =>
              /\ "returned" \in DOMAIN ret'
              /\ ret'.returned.t = "Component"
              /\ Isomorphic(heap, DictGet(components, n), heap', ret'.returned.ref)
              /\ Keys(components') =
                    {heap[r].name : r \in Range(Subtree(heap, DictGet(components, n)))}
      ]_vars

CreateCalled == call'.op = "create_component"

\* C9: create_component with a name that is already a key fails and changes
\* nothing: the registry and every component's parent and children stay as
\* they were.
C9_DuplicateCreateChangesNothing ==
    [][(CreateCalled /\ call'.name \in Keys(components)) =>
          /\ ret' = Raised("ValueError", "already exists")
          /\ components' = components
          /\ heap' = heap
      ]_vars

\* a duplicate name was refused although the parent named in the call exists
C9_Witness ==
    /\ call # None
    /\ call.op = "create_component"
    /\ ret = Raised("ValueError", "already exists")
    /\ Truthy(call.parent_name)
    /\ call.parent_name.v \in Keys(components)
    /\ call.parent_name.v # call.name

\* C10: create_component with a fresh name and a parent_name that is no key
\* of the registry fails with the parent-not-found error and leaves the
\* registry and every component unchanged.
C10_MissingParentFails ==
    [][(/\ CreateCalled
        /\ call'.name \notin Keys(components)
        /\ call'.parent_name # None
        /\ call'.parent_name.v \notin Keys(components)) =>
          /\ ret' = Raised("ValueError", "parent not found")
          /\ components' = components
          /\ heap' = heap
      ]_vars

----------------------------------------------------------------------------
(* Further claims about the registry, checked under Spec *)

CreateSucceeded == CreateCalled /\ "returned" \in DOMAIN ret'

\* C11: a successful create_component returns the name; the registry gains
\* the key name, mapped to a new component with the given typeID and pose;
\* when parent_name is a string that is a registry key the new component's
\* parent is the component registered under it and the new component is the
\* last of that parent's children; when no parent_name is given it has no
\* parent; every other registry entry and every other component is unchanged.
C11_CreateEffects ==
    [][CreateSucceeded =>
          LET n == call'.name
              new == Len(heap) + 1
              given == call'.parent_name # None /\ call'.parent_name.v \in Keys(components)
              parent == IF given THEN DictGet(components, call'.parent_name.v) ELSE 0
          IN  /\ ret' = Returned(n)
              /\ components' = Append(components, [key |-> n, ref |-> new])
              /\ Len(heap') = new
              /\ heap'[new].name = n
              /\ heap'[new].typeID = call'.typeID
              /\ heap'[new].translation = call'.translation_data
              /\ heap'[new].rotation = call'.rotation_data
              /\ heap'[new].children = <<>>
              /\ heap'[new].parent = parent
              /\ \A r \in DOMAIN heap :
                    IF r = parent
                    THEN heap'[r] = [heap[r] EXCEPT !.children = Append(@, new)]
                    ELSE heap'[r] = heap[r]
      ]_vars

ClearCalled == call'.op = "clear_components"
AfterClear == call # None /\ call.op = "clear_components"

\* C12: clear_components leaves the registry empty, whatever came before it
\* (a second clear included), and the create_component that follows a clear
\* never fails with the duplicate-name error, whatever name it is given.
C12_ClearIsIdempotent ==
    [][/\ ClearCalled => components' = <<>>
       /\ (AfterClear /\ CreateCalled) => ret' # Raised("ValueError", "already exists")
      ]_vars

\* a name that was registered before a clear_components has been created
\* again: the older component of that name is no longer registered
C12_Witness ==
    /\ call # None
    /\ call.op = "create_component"
    /\ ret = Returned(call.name)
    /\ Len(heap) = 2
    /\ heap[1].name = call.name
    /\ components = <<[key |-> call.name, ref |-> 2]>>

GetTextCalled == call'.op = "get_sysmlv2_text"

\* C13: get_sysmlv2_text with a root name that is no key of the registry
\* fails with the root-not-found error: it returns no text, for no other
\* component either, and the registry and its components stay as they were.
C13_MissingRootFails ==
    [][(GetTextCalled /\ call'.root_component_name \notin Keys(components)) =>
          /\ ret' = Raised("ValueError", "root not found")
          /\ components' = components
          /\ heap' = heap
      ]_vars

\* the text of an unregistered name was asked for while other components,
\* one of them parentless, were registered
C13_Witness ==
    /\ call # None
    /\ call.op = "get_sysmlv2_text"
    /\ call.root_component_name \notin Keys(components)
    /\ ret = Raised("ValueError", "root not found")
    /\ \E i \in DOMAIN components : heap[components[i].ref].parent = 0

GetTextReturned == GetTextCalled /\ "returned" \in DOMAIN ret'

\* the seven attribute lines that redeclare the pose and typeID of component c
\* at an indentation
OwnAttributes(c, indent) ==
    << AttrLine(indent, "tx", FormatFloat(c.translation.x)),
       AttrLine(indent, "ty", FormatFloat(c.translation.y)),
       AttrLine(indent, "tz", FormatFloat(c.translation.z)),
       AttrLine(indent, "rx", FormatFloat(c.rotation.x)),
       AttrLine(indent, "ry", FormatFloat(c.rotation.y)),
       AttrLine(indent, "rz", FormatFloat(c.rotation.z)),
       AttrLine(indent, "typeID", FormatInt(c.typeID)) >>

\* line i of the text opens a part block named after component c that
\* redeclares c's attributes
BlockAt(lines, i, c) ==
    /\ lines[i].k = "part"
    /\ lines[i].name = c.name
    /\ i + 7 <= Len(lines)
    /\ SubSeq(lines, i + 1, i + 7) = OwnAttributes(c, lines[i].indent + 4)

\* the components of the tree the text was asked for
TextTree == Subtree(heap, DictGet(components, call'.root_component_name))

\* C14: in the text of get_sysmlv2_text(root) every component of the tree
\* under root, the root included, is a named part block that redeclares
\* tx, ty, tz, rx, ry, rz with its local pose and typeID with its typeID.
C14_EveryComponentHasItsAttributes ==
    [][GetTextReturned =>
          \A r \in Range(TextTree) :
              \E i \in DOMAIN ret'.returned : BlockAt(ret'.returned, i, heap[r])
      ]_vars

\* the parentless component above a component
RECURSIVE RootOf(_, _)
RootOf(hp, ref) == IF hp[ref].parent = 0 THEN ref ELSE RootOf(hp, hp[ref].parent)

Registered == {components[i].ref : i \in DOMAIN components}

\* the components that are registered or linked, by parent and children
\* links, to a registered one
Reachable == UNION {Range(Subtree(heap, RootOf(heap, r))) : r \in Registered}

\* C16: names are unique: no two distinct components that are registered or
\* reachable through parent/children links from a registered component have
\* the same name, whichever of create_component, clear_components and
\* load_from_sysml built the registry.
C16_NamesAreUnique ==
    \A r1, r2 \in Reachable : heap[r1].name = heap[r2].name => r1 = r2

\* C17: the registry is single-rooted: at most one registered component has
\* no parent.
C17_SingleRoot ==
    Cardinality({r \in Registered : heap[r].parent = 0}) <= 1

\* following parent links from ref ends at a parentless component within n steps
RECURSIVE EndsWithin(_, _, _)
EndsWithin(hp, ref, n) ==
    \/ hp[ref].parent = 0
    \/ n > 0 /\ EndsWithin(hp, hp[ref].parent, n - 1)

Occurrences(s, x) == Cardinality({i \in DOMAIN s : s[i] = x})

\* C18: the component structure is acyclic, and every component that has a
\* parent is exactly once in that parent's children sequence and in no other
\* component's children sequence.
C18_TreeShaped ==
    \A r \in DOMAIN heap :
        /\ EndsWithin(heap, r, Len(heap))
        /\ \A q \in DOMAIN heap :
              Occurrences(heap[q].children, r) = IF heap[r].parent = q THEN 1 ELSE 0

\* load_from_sysml has added components to a registry that held a component
\* with a parent already
C18_Witness ==
    /\ call # None
    /\ call.op = "load_from_sysml"
    /\ ~call.clear_existing
    /\ Cardinality({r \in DOMAIN heap : heap[r].parent # 0}) >= 2
    /\ \E r \in Registered : heap[r].parent # 0


\* the component registered under the name of component ref; 0 if none
RegisteredAs(ref) == DictGet(components, heap[ref].name)

\* C29: registry and links agree: every registered component is the registry
\* entry under its own name; the parent of a registered component is
\* registered, under its own name; and every child in a registered
\* component's children is the registry entry under the child's name.
C29_RegistryAndLinksAgree ==
    \A i \in DOMAIN components :
        \A ref \in {components[i].ref} :
            /\ components[i].key = heap[ref].name
            /\ RegisteredAs(ref) = ref
            /\ heap[ref].parent # 0 => RegisteredAs(heap[ref].parent) = heap[ref].parent
            /\ \A j \in DOMAIN heap[ref].children :
                  RegisteredAs(heap[ref].children[j]) = heap[ref].children[j]
----------------------------------------------------------------------------
(* Claims about the text of a tree, checked under SpecText *)

\* the lines that open a part block of a name
PartLinesOf(lines, n) == {i \in DOMAIN lines : lines[i].k = "part" /\ lines[i].name = n}

\* how many parent links lead from a component of the tree up to its root
RECURSIVE CompDepth(_, _, _)
CompDepth(hp, ref, root) == IF ref = root THEN 0 ELSE 1 + CompDepth(hp, hp[ref].parent, root)

\* the part blocks directly inside the block of a document element, in order
PartChildren(d, node) == SelectSeq(Children(d, node), LAMBDA j : d[j].kind = "PartUsage")

\* the part block at `node` and the blocks nested in it are, name by name and
\* in the same order, the component `ref` and its descendants
RECURSIVE Mirrors(_, _, _, _)
Mirrors(d, node, hp, ref) ==
    /\ NameOrEmpty(d[node].name) = hp[ref].name
    /\ Len(PartChildren(d, node)) = Len(hp[ref].children)
    /\ \A c \in DOMAIN hp[ref].children :
          Mirrors(d, PartChildren(d, node)[c], hp, hp[ref].children[c])

\* the part block directly inside `part def Context`
ContextParts(d) ==
    {i \in DOMAIN d : /\ d[i].kind = "PartUsage"
                      /\ d[i].parent # 0
                      /\ d[d[i].parent].name = Str("Context")}

\* C15: in the text of get_sysmlv2_text(root) every proper descendant of root
\* is exactly one part block, nested in the block of its parent, siblings in
\* the order of the parent's children sequence, each nesting level indented
\* by four more columns; components outside the tree of root do not appear.
C15_TextMirrorsTree ==
    [][GetTextReturned =>
          \A lines \in {ret'.returned}, tree \in {TextTree},
             root \in {DictGet(components, call'.root_component_name)} :
             \A d \in {Parse(lines)} :
              /\ Cardinality(ContextParts(d)) = 1
              /\ \A top \in ContextParts(d) : Mirrors(d, top, heap, root)
              /\ Cardinality({i \in DOMAIN d : d[i].kind = "PartUsage"}) = Len(tree) + 1
              /\ \A k \in DOMAIN tree :
                    /\ Cardinality(PartLinesOf(lines, heap[tree[k]].name)) = 1
                    /\ \A i \in PartLinesOf(lines, heap[tree[k]].name) :
                          lines[i].indent = 8 + 4 * CompDepth(heap, tree[k], root)
      ]_vars

\* a text was produced for a root that has two children
C15_Witness ==
    /\ call # None
    /\ call.op = "get_sysmlv2_text"
    /\ "returned" \in DOMAIN ret
    /\ Len(heap[DictGet(components, call.root_component_name)].children) = 2
    /\ Len(ret.returned) > 20

----------------------------------------------------------------------------
(* Claims about load_from_sysml on arbitrary documents, checked under SpecLoad *)

LoadCalled == call'.op = "load_from_sysml"

\* the elements of the subtree of el that are parts with an attribute whose
\* expression cannot be evaluated
FailingParts(d, el) ==
    {n \in Range(PreOrder(d, el)) : d[n].kind = "PartUsage" /\ CollectRaises(d[n].attrs)}

\* C19: when an attribute's expression cannot be reduced to a number while
\* load_from_sysml reads a tree, the failure reaches the caller, wherever in
\* the tree the failing attribute is (at the root part or at a nested part):
\* it is not swallowed.
C19_EvaluationFailurePropagates ==
    [][(LoadCalled /\ FailingParts(doc, call'.root) # {}) => "raised" \in DOMAIN ret'
      ]_vars

LoadReturned == LoadCalled /\ "returned" \in DOMAIN ret'

\* the nodes of the tree under root that qualify for materialisation, in
\* document depth-first order
Qualifying(d, root) == SelectSeq(PreOrder(d, root), LAMBDA n : Materialises(d[n]))

\* the nearest proper ancestor of n, below or at root, that qualifies; 0 if none
RECURSIVE NearestQualifying(_, _, _)
NearestQualifying(d, root, n) ==
    IF n = root THEN 0
    ELSE LET p == d[n].parent
         IN  IF Materialises(d[p]) THEN p ELSE NearestQualifying(d, root, p)

\* the position of an element in a sequence without repetitions; 0 if absent
PositionIn(s, x) == IF \E k \in DOMAIN s : s[k] = x THEN CHOOSE k \in DOMAIN s : s[k] = x ELSE 0

\* C22: a load_from_sysml that returns has constructed one Component for each
\* node of the tree that is a PartUsage with a typeID attribute or the part
\* definition Component, and for no other node; the component of a node has
\* the node's name, its parent is the component of the node's nearest
\* qualifying proper ancestor (none if there is no such ancestor), and its
\* children are the components of the nodes it is the nearest qualifying
\* ancestor of, in document depth-first order.
C22_MaterialisesExactlyTheQualifyingParts ==
    [][LoadReturned =>
         \A q \in {Qualifying(doc, call'.root)}, base \in {Len(heap)} :
            /\ Len(heap') = base + Len(q)
            /\ \A k \in DOMAIN q :
                  LET c == heap'[base + k]
                      up == NearestQualifying(doc, call'.root, q[k])
                      below == SelectSeq(q, LAMBDA n :
                                  NearestQualifying(doc, call'.root, n) = q[k])
                  IN  /\ Truthy(doc[q[k]].name) => c.name = doc[q[k]].name.v
                      /\ c.parent = IF up = 0 THEN 0 ELSE base + PositionIn(q, up)
                      /\ Len(c.children) = Len(below)
                      /\ \A j \in DOMAIN below :
                            c.children[j] = base + PositionIn(q, below[j])
      ]_vars

\* C26: the root load_from_sysml returns is the component constructed for the
\* first qualifying node of the given tree in document order, with
\* clear_existing true or false and whatever the registry held before; when
\* the tree yields no component and no parentless component is registered,
\* it returns None.
C26_ReturnedRootIsOfTheDocument ==
    [][LoadReturned =>
         \A q \in {Qualifying(doc, call'.root)} :
            /\ q # <<>> => ret'.returned = [t |-> "Component", ref |-> Len(heap) + 1]
            /\ (q = <<>> /\ \A i \in DOMAIN components' : heap'[components'[i].ref].parent # 0)
                   => ret'.returned = None
      ]_vars

----------------------------------------------------------------------------
(* Claim about the errors of create_component and get_sysmlv2_text *)

\* the errors the registry operations raise in a state of the registry, each
\* with the case it arises in; the case is read off the arguments and the
\* registry, not off the error
ErrorsIn(comps, hp) ==
    { [case |-> IF name \in Keys(comps) THEN "duplicate name" ELSE "missing parent",
       err |-> create_component(comps, hp, name, 1, Vec(0, 0, 0), Vec(0, 0, 0),
                                parent_name).ret] :
        <<name, parent_name>> \in
            {np \in Names \X ParentNames :
                "raised" \in DOMAIN create_component(comps, hp, np[1], 1, Vec(0, 0, 0),
                                                     Vec(0, 0, 0), np[2]).ret} }
    \cup
    { [case |-> "missing root",
       err |-> get_sysmlv2_text(comps, hp, root_component_name, "MyStructure")] :
        root_component_name \in
            {n \in Names :
                "raised" \in DOMAIN get_sysmlv2_text(comps, hp, n, "MyStructure")} }

----------------------------------------------------------------------------
(* Claims about what clear_components leaves alone, checked under Spec *)

\* a call that looks name n up in the registry: create_component with
\* parent_name n for a name that is no duplicate, or get_sysmlv2_text with
\* root_component_name n
LooksUp(n) ==
    \/ /\ CreateCalled
       /\ call'.parent_name = Str(n)
       /\ call'.name \notin Keys(components)
    \/ /\ GetTextCalled
       /\ call'.root_component_name = n

\* C21: clear_components changes the registry's keys only: every component
\* object that existed before the clear has the same name, typeID, pose,
\* parent and children after it; and a call that looks a name up while the
\* name is no key of the registry (as it is for every name from the clear
\* until the name is created again) fails and changes nothing.
C21_ClearChangesOnlyTheKeys ==
    [][/\ ClearCalled => (heap' = heap /\ components' = <<>>)
       /\ \A n \in Names \ Keys(components) :
             LooksUp(n) => /\ "raised" \in DOMAIN ret'
                           /\ components' = components
                           /\ heap' = heap
      ]_vars

----------------------------------------------------------------------------
(* Claims about the unit of angle and the Euler convention of              *)
(* components_from_part_world, checked under SpecAngles                     *)

\* the angle a of the call's unit in radians (quarter turns of the lattice)
InRadians(a) == IF call.angles_in_degrees THEN a \div 90 ELSE a

\* the rotation rows and columns of a transform
Rotation(T) == <<SubSeq(T[1], 1, 3), SubSeq(T[2], 1, 3), SubSeq(T[3], 1, 3)>>

\* C24: the convention euler_axes that extracts abs_rx, abs_ry, abs_rz from an
\* absolute transform is the convention the local transforms are built with:
\* for every euler_axes, building a transform with the same builder from a
\* record's absolute angles gives back the rotation of the absolute transform
\* the angles were extracted from.
C24_ExtractedAnglesRebuildTheRotation ==
    \A em \in {EmittersPreOrder(doc)} :
        \A k \in DOMAIN out :
            Rotation(transformation_matrix(<<0, 0, 0>>,
                        <<InRadians(out[k].abs_rx), InRadians(out[k].abs_ry),
                          InRadians(out[k].abs_rz)>>))
                = Rotation(PathProduct(doc, em[k]))

\* the absolute transform of a sequence of PartUsage nodes, root first, every
\* source angle converted to radians once and nothing else converted
RECURSIVE ConvertedOnceProduct(_, _)
ConvertedOnceProduct(d, ns) ==
    IF ns = <<>> THEN Identity4
    ELSE LET vals == CollectVals(d[Head(ns)].attrs)
         IN  MatMul(transformation_matrix(
                        <<Get(vals, "tx", 0), Get(vals, "ty", 0), Get(vals, "tz", 0)>>,
                        <<InRadians(Get(vals, "rx", 0)), InRadians(Get(vals, "ry", 0)),
                          InRadians(Get(vals, "rz", 0))>>),
                    ConvertedOnceProduct(d, Tail(ns)))

\* an angle in radians in the unit of the call
InCallUnit(a) == IF call.angles_in_degrees THEN a * 90 ELSE a

\* C25: the unit flag acts at the boundary only.  Every record's local pose
\* is the source values as they stand; its absolute translation is read off
\* the product of the local transforms, each built from the source
\* translation as it stands and the source angles converted to radians once
\* (not at all without the flag); its absolute angles are the angles
\* extracted from that product, converted to degrees once with the flag and as
\* extracted without it.
C25_UnitFlagActsAtTheBoundary ==
    \A em \in {EmittersPreOrder(doc)} :
        \A k \in DOMAIN out :
            \A vals \in {CollectVals(doc[em[k]].attrs)},
               T \in {ConvertedOnceProduct(doc, PartsOnPath(doc, em[k]))} :
                \A e \in {euler_from_matrix(T, call.euler_axes)} :
                    /\ <<out[k].tx, out[k].ty, out[k].tz>>
                          = <<Get(vals, "tx", 0), Get(vals, "ty", 0), Get(vals, "tz", 0)>>
                    /\ <<out[k].rx, out[k].ry, out[k].rz>>
                          = <<Get(vals, "rx", 0), Get(vals, "ry", 0), Get(vals, "rz", 0)>>
                    /\ <<out[k].abs_tx, out[k].abs_ty, out[k].abs_tz>>
                          = <<T[1][4], T[2][4], T[3][4]>>
                    /\ <<out[k].abs_rx, out[k].abs_ry, out[k].abs_rz>>
                          = <<InCallUnit(e[1]), InCallUnit(e[2]), InCallUnit(e[3])>>

\* a call in degrees has returned the record of a part nested in a part,
\* both turned, with an absolute angle of 90 or more degrees
C25_Witness ==
    /\ status = "returned"
    /\ call.angles_in_degrees
    /\ \E k \in DOMAIN out :
          /\ k >= 2
          /\ out[k].rx = 90
          /\ out[k - 1].rz = 90
          /\ out[k].parent_name # None
          /\ \E f \in {"abs_rx", "abs_ry", "abs_rz"} : out[k][f] >= 90 \/ out[k][f] <= -90

----------------------------------------------------------------------------
(* Claims about the Onshape glue, checked under SpecExport *)

InsertRunning ==
    /\ call # None
    /\ call.op \in {"insert_assembly_from_url", "insert_assembly_from_mvid"}

\* the remote calls of create_instance that raised
RaisedCreates == {i \in DOMAIN remote : remote[i].api = "create_instance"
                                         /\ remote[i].outcome = "raised"}

\* C27 (as stated): whenever create_instance raises in one of the insert
\* functions, the operation ends with that same failure: it makes no later
\* remote call and reports no placement.
C27_CreateFailureReachesTheCaller ==
    InsertRunning =>
        \A i \in RaisedCreates :
            /\ i = Len(remote)
            /\ pc = "done"
            /\ ret = Raised(remote[i].kind, remote[i].msg)

\* C27 (amended): a failure of create_instance ends the insert functions with
\* that same failure and without a later remote call, unless it is an
\* ApiTypeError whose text holds "received_data"; that one is taken as a
\* successful insert: the assembly-info query is the next remote call and
\* what it finds is what the operation reports.
C27_CreateFailureReachesTheCallerUnlessIgnored ==
    InsertRunning =>
        \A i \in RaisedCreates :
            IF remote[i].kind = "ApiTypeError" /\ remote[i].msg = "received_data"
            THEN /\ pc \in {"get_assembly_info", "done"}
                 /\ pc = "done" =>
                       /\ Len(remote) = i + 1
                       /\ remote[i + 1].api = "get_assembly_info"
                       /\ remote[i + 1].outcome = "returned" =>
                             /\ "returned" \in DOMAIN ret
                             /\ ret.returned = None <=> remote[i + 1].name = None
                             /\ ret.returned # None =>
                                   Str(ret.returned.name) = remote[i + 1].name
                       /\ remote[i + 1].outcome = "raised" =>
                             ret = Raised(remote[i + 1].kind, remote[i + 1].msg)
            ELSE /\ i = Len(remote)
                 /\ pc = "done"
                 /\ ret = Raised(remote[i].kind, remote[i].msg)

\* an insert function has reported a placement although its create_instance
\* raised
C27_Witness ==
    /\ InsertRunning
    /\ pc = "done"
    /\ RaisedCreates = {1}
    /\ "returned" \in DOMAIN ret
    /\ ret.returned # None

\* the records with a url among the first n
WithUrl(n) == {j \in 1..n : Truthy(export_components[j].onshape_url)}

\* C28: _export_components drives the service record by record, in input
\* order: a record without url causes no remote call and no entry of the
\* result; every other record causes one insert (create_instance, then the
\* assembly-info query) and then one transform addressed to the name that
\* insert returned, before the next record; nothing is retried, and the
\* operation ends on the first call that fails, which is then the last remote
\* call made.
C28_ExportProtocol ==
    (call # None /\ call.op = "_export_components") =>
        /\ \A i \in DOMAIN remote :
              /\ remote[i].api = <<"create_instance", "get_assembly_info",
                                   "transform_by_name">>[((i - 1) % 3) + 1]
              /\ remote[i].api = "transform_by_name" => remote[i].name = remote[i - 1].name
              /\ (remote[i].outcome = "raised"
                    /\ ~(remote[i].api = "create_instance" /\ remote[i].kind = "ApiTypeError"
                           /\ remote[i].msg = "received_data"))
                    => i = Len(remote) /\ pc = "done" /\ "raised" \in DOMAIN ret
        /\ pc = "loop" =>
              /\ Len(remote) = 3 * Cardinality(WithUrl(comp_index - 1))
              /\ Keys(inserted) = {export_components[j].name : j \in WithUrl(comp_index - 1)}
        /\ (pc = "done" /\ "returned" \in DOMAIN ret) =>
              /\ Len(remote) = 3 * Cardinality(WithUrl(Len(export_components)))
              /\ ret.returned = inserted
              /\ Keys(inserted) =
                    {export_components[j].name : j \in WithUrl(Len(export_components))}
        /\ (pc = "done" /\ "raised" \in DOMAIN ret) =>
              /\ remote # <<>>
              /\ remote[Len(remote)].outcome = "raised"

====
